---- MODULE Spec2Model ----
(***************************************************************************)
(* Model of the failover firewall plugin (failover.firewall):              *)
(* generate_rules, write_files, restore_files, drop_all and accept_all of  *)
(* plugins/failover_/iptables_linux.py.                                    *)
(***************************************************************************)
EXTENDS Integers, Sequences, FiniteSets, TLC

\* ------------------------------------------------------------------ bounds
\* Number of drop_all / accept_all requests that may be submitted.
NumRequests == 2
\* Textual addresses are drawn from 1..MaxAddr (per family tag).
MaxAddr == 2
\* Longest vips list handed to a direct generate_rules call.
MaxVips == 2
\* Longest list interface.ip_in_use returns to drop_all.
MaxSysVips == 1
\* Longest standard-error output of a reload subprocess, in bytes.
MaxErrLen == 1

\* ---------------------------------------------------------------- constants
V4_FILE == "/data/v4-fw.rules"
V6_FILE == "/data/v6-fw.rules"
JOB_LOCK == "firewall_rules_update"

Procs == 1..NumRequests
Ops == {"drop_all", "accept_all"}

\* ------------------------------------------------------------- rule lines
\* One line of a rules file.  kind is the directive, chain the chain it is
\* about, opt the match option, val its argument (port or address), mask the
\* prefix length of an address match.
Line(kind, chain, opt, val, mask) ==
    [kind |-> kind, chain |-> chain, opt |-> opt, val |-> val, mask |-> mask]

\* '*filter\n'
TableLine == Line("*filter", "", "", 0, 0)
\* ':INPUT ACCEPT [0:0]\n', ':FORWARD ACCEPT [0:0]\n', ':OUTPUT ACCEPT [0:0]\n'
PolicyLine(chain) == Line(":ACCEPT", chain, "", 0, 0)
\* '-A INPUT -p tcp -m tcp --dport {port} -j ACCEPT\n'
AcceptLine(port) == Line("ACCEPT", "INPUT", "--dport", port, 0)
\* '-A INPUT -s {address}/32 -j DROP\n'
DropLineV4(address) == Line("DROP", "INPUT", "-s", address, 32)
\* '-A INPUT -d {address}/128 -j DROP\n'
DropLineV6(address) == Line("DROP", "INPUT", "-d", address, 128)
\* 'COMMIT\n'
CommitLine == Line("COMMIT", "", "", 0, 0)

\* list.insert(i, x): x goes before index i (0-based), or at the end when
\* i is beyond the list.
InsertBefore(s, i, x) ==
    LET k == IF i - 1 > Len(s) THEN Len(s) ELSE i - 1
    IN  SubSeq(s, 1, k) \o <<x>> \o SubSeq(s, k + 1, Len(s))
Insert(s, i, x) ==
    LET k == IF i > Len(s) THEN Len(s) ELSE i
    IN  SubSeq(s, 1, k) \o <<x>> \o SubSeq(s, k + 1, Len(s))

\* The table marker and the default section of one family's rules.
DefaultSection ==
    Insert(Insert(Insert(<<TableLine>>, 1, PolicyLine("INPUT")),
                  2, PolicyLine("FORWARD")), 3, PolicyLine("OUTPUT"))

\* The ssh/webUI rules appended to v4rules and to v6rules; rules is the pair
\* <<v4rules, v6rules>>, config the ssh.config and system.general.config ports.
AppendAdminV4Only(rules, config) ==
    <<rules[1] \o <<AcceptLine(config.tcpport), AcceptLine(config.ui_port),
                    AcceptLine(config.ui_httpsport)>>,
      rules[2]>>
AppendAdmin(rules, config) ==
    <<rules[1] \o <<AcceptLine(config.tcpport), AcceptLine(config.ui_port),
                    AcceptLine(config.ui_httpsport)>>,
      rules[2] \o <<AcceptLine(config.tcpport), AcceptLine(config.ui_port),
                    AcceptLine(config.ui_httpsport)>>>>

\* The for loop over data['vips'] of generate_rules, applied to the pair
\* <<v4rules, v6rules>>.
RECURSIVE AppendVips(_, _)
RECURSIVE AppendVipsBothFamilies(_, _)
RECURSIVE AppendVipsElseV6(_, _)
AppendVipsElseV6(vips, rules) ==
    IF vips = <<>> THEN rules
    ELSE LET i == Head(vips)
             next == IF i.type = "INET"
                       THEN <<Append(rules[1], DropLineV4(i.address)), rules[2]>>
                       ELSE <<rules[1], Append(rules[2], DropLineV6(i.address))>>
         IN  AppendVipsElseV6(Tail(vips), next)
AppendVipsBothFamilies(vips, rules) ==
    IF vips = <<>> THEN rules
    ELSE LET i == Head(vips)
             next == IF i.type = "INET"
                       THEN <<Append(rules[1], DropLineV4(i.address)), rules[2]>>
                     ELSE IF i.type = "INET6"
                       THEN <<Append(rules[1], DropLineV4(i.address)),
                              Append(rules[2], DropLineV6(i.address))>>
                     ELSE rules
         IN  AppendVipsBothFamilies(Tail(vips), next)
AppendVips(vips, rules) ==
    IF vips = <<>> THEN rules
    ELSE LET i == Head(vips)
             next == IF i.type = "INET"
                       THEN <<Append(rules[1], DropLineV4(i.address)), rules[2]>>
                     ELSE IF i.type = "INET6"
                       THEN <<rules[1], Append(rules[2], DropLineV6(i.address))>>
                     ELSE rules
         IN  AppendVips(Tail(vips), next)

\* generate_rules(data), with the ssh.config and system.general.config
\* lookups given as config: returns <<v4rules, v6rules>>.
generate_rules_any_mode(data, config) ==
    LET body == AppendVips(data.vips,
                           AppendAdmin(<<DefaultSection, DefaultSection>>, config))
    IN  <<Append(body[1], CommitLine), Append(body[2], CommitLine)>>
generate_rules(data, config) ==
    LET start == <<DefaultSection, DefaultSection>>
        body == IF data.drop
                  THEN AppendVips(data.vips, AppendAdmin(start, config))
                  ELSE start
    IN  <<Append(body[1], CommitLine), Append(body[2], CommitLine)>>

\* ---------------------------------------------------------------- inputs
VipTypes == {"INET", "INET6", "LINK"}
Vip == [type : VipTypes, address : 1..MaxAddr]
SeqsUpTo(S, n) == UNION {[1..k -> S] : k \in 0..n}
\* Port numbers ssh.config and system.general.config may hold.
Ports == {22, 80, 443}
Configs == [tcpport : Ports, ui_port : Ports, ui_httpsport : Ports]
\* The ports of a system as installed.
DefaultConfig == [tcpport |-> 22, ui_port |-> 80, ui_httpsport |-> 443]

GenInputs == [drop : BOOLEAN, vips : SeqsUpTo(Vip, MaxVips)]
\* What interface.ip_in_use may return to drop_all.
SysVipLists == SeqsUpTo(Vip, MaxSysVips)
\* Bytes a reload subprocess may write to stderr: an ASCII byte and a byte
\* that is not valid UTF-8.
Bytes == {65, 255}
StderrOutputs == SeqsUpTo(Bytes, MaxErrLen)

\* err.decode("utf8", "ignore"): undecodable bytes are dropped.
Utf8DecodeIgnore(err) ==
    LET ok(b) == b < 128 IN SelectSeq(err, ok)

\* ----------------------------------------------------------------- state
VARIABLES
    pc,        \* per request: where its job is
    op,        \* per request: the method called
    data,      \* per request: the data dict handed to generate_rules
    rules,     \* per request: <<v4rules, v6rules>> as returned by generate_rules
    result,    \* per request: return value or raised error
    v4file,    \* content of V4_FILE, a sequence of lines
    v6file,    \* content of V6_FILE
    v4table,   \* the kernel's IPv4 filter table, as last loaded
    v6table,   \* the kernel's IPv6 filter table
    log,       \* the jobs' interactions with the outside, in the order they ran
    config,    \* ssh.config / system.general.config ports
    gen_data,  \* argument of a direct failover.firewall.generate_rules call
    gen_out    \* its return value, <<>> before the call

vars == <<pc, op, data, rules, result, v4file, v6file, v4table, v6table,
          log, config, gen_data, gen_out>>
jobvars == <<pc, op, data, rules, result, v4file, v6file, v4table, v6table, log>>

NoData == [drop |-> FALSE, vips |-> <<>>]
NoRules == <<<<>>, <<>>>>
Outcome(kind, value, msg, path, text) ==
    [kind |-> kind, value |-> value, msg |-> msg, path |-> path, text |-> text]
NoResult == Outcome("none", FALSE, "", "", <<>>)
Return(value) == Outcome("return", value, "", "", <<>>)
CallError(msg, path, text) == Outcome("CallError", FALSE, msg, path, text)
AttributeError == Outcome("AttributeError", FALSE, "deocde", "", <<>>)

\* One interaction of a job with the outside: a collaborator's answer, a file
\* write or a reload invocation.  ok is whether it answered true / succeeded,
\* err the bytes a reload wrote to stderr.
Event(p, step, ok, err) == [req |-> p, step |-> step, ok |-> ok, err |-> err]

\* The steps of a job between taking the lock and finishing.
\* In communicate_v4 / communicate_v6 the job is blocked in communicate() on
\* a reload subprocess that never exits.
RunningPcs == {"licensed", "ip_in_use", "generate_rules", "write_v4",
               "write_v6", "restore_v4", "restore_v6",
               "communicate_v4", "communicate_v6"}
Running(p) == pc[p] \in RunningPcs

JobInit ==
    /\ pc = [p \in Procs |-> "idle"]
    /\ op = [p \in Procs |-> "none"]
    /\ data = [p \in Procs |-> NoData]
    /\ rules = [p \in Procs |-> NoRules]
    /\ result = [p \in Procs |-> NoResult]
    /\ v4file = <<>>
    /\ v6file = <<>>
    /\ v4table = <<>>
    /\ v6table = <<>>
    /\ log = <<>>

Init ==
    /\ JobInit
    /\ config = DefaultConfig
    /\ gen_data = NoData
    /\ gen_out = <<>>

\* ------------------------------------------------------------ job locking
\* The lock named by the @job decorator of each method.
LockOfMethodName(o) == o
LockOfPerMethod(o) == IF o = "drop_all" THEN JOB_LOCK ELSE "accept_all"
LockOf(o) == IF o = "drop_all" THEN JOB_LOCK ELSE JOB_LOCK

\* A client calls failover.firewall.drop_all or accept_all: the job is queued.
Call(p, o) ==
    /\ pc[p] = "idle"
    /\ pc' = [pc EXCEPT ![p] = "queued"]
    /\ op' = [op EXCEPT ![p] = o]
    /\ UNCHANGED <<data, rules, result, v4file, v6file, v4table, v6table, log,
                   config, gen_data, gen_out>>

\* The job starts once no running job holds a lock of the same name.
Acquire(p) ==
    /\ pc[p] = "queued"
    /\ \A q \in Procs \ {p} : Running(q) => LockOf(op[q]) # LockOf(op[p])
    /\ pc' = [pc EXCEPT ![p] = "licensed"]
    /\ UNCHANGED <<op, data, rules, result, v4file, v6file, v4table, v6table,
                   log, config, gen_data, gen_out>>

\* The job ends with a return value or a raised error: its lock is free and
\* its local variables (data, v4rules, v6rules) are gone.
Finish(p, res) ==
    /\ pc' = [pc EXCEPT ![p] = "done"]
    /\ result' = [result EXCEPT ![p] = res]
    /\ data' = [data EXCEPT ![p] = NoData]
    /\ rules' = [rules EXCEPT ![p] = NoRules]

\* The job goes on to its next step.
Goto(p, label) ==
    /\ pc' = [pc EXCEPT ![p] = label]
    /\ UNCHANGED <<result, data, rules>>

\* The job goes on to generate_rules with the data dict d.
GotoGenerate(p, d) ==
    /\ pc' = [pc EXCEPT ![p] = "generate_rules"]
    /\ data' = [data EXCEPT ![p] = d]
    /\ UNCHANGED <<result, rules>>

\* ------------------------------------------------- drop_all and accept_all
\* if not await self.middleware.call('failover.licensed'): return False
NotLicensedIgnored(p) ==
    IF op[p] = "drop_all"
      THEN Goto(p, "ip_in_use")
      ELSE GotoGenerate(p, [drop |-> FALSE, vips |-> <<>>])
NotLicensed(p) == Finish(p, Return(FALSE))

\* The licence check that opens drop_all and accept_all; accept_all then sets
\* data = {'drop': False, 'vips': []}.
Licensed(p) ==
    /\ pc[p] = "licensed"
    /\ \E lic \in BOOLEAN :
         /\ log' = Append(log, Event(p, "licensed", lic, <<>>))
         /\ IF ~lic
              THEN NotLicensed(p)
            ELSE IF op[p] = "drop_all"
              THEN Goto(p, "ip_in_use")
            ELSE GotoGenerate(p, [drop |-> FALSE, vips |-> <<>>])
    /\ UNCHANGED <<op, v4file, v6file, v4table, v6table,
                   config, gen_data, gen_out>>

\* if not vips: raise CallError('No VIP addresses detected on system')
NoVipsReturnsFalse(p) == Finish(p, Return(FALSE))
NoVips(p) == Finish(p, CallError("No VIP addresses detected on system", "", <<>>))

\* drop_all: vips = interface.ip_in_use({'static': True}), then
\* data = {'drop': True, 'vips': vips}.
IpInUse(p) ==
    /\ pc[p] = "ip_in_use"
    /\ \E vips \in SysVipLists :
         /\ log' = Append(log, Event(p, "ip_in_use", vips # <<>>, <<>>))
         /\ IF vips = <<>>
              THEN NoVips(p)
              ELSE GotoGenerate(p, [drop |-> TRUE, vips |-> vips])
    /\ UNCHANGED <<op, v4file, v6file, v4table, v6table,
                   config, gen_data, gen_out>>

\* v4rules, v6rules = failover.firewall.generate_rules(data)
GenerateRules(p) ==
    /\ pc[p] = "generate_rules"
    /\ rules' = [rules EXCEPT ![p] = generate_rules(data[p], config)]
    /\ pc' = [pc EXCEPT ![p] = "write_v4"]
    /\ UNCHANGED <<op, data, result, v4file, v6file, v4table, v6table, log,
                   config, gen_data, gen_out>>

\* ------------------------------------------------------------ write_files
\* What a file may hold after open(path, 'w+') / writelines failed: the old
\* content when open failed, else some prefix of the lines.
FailedWrite(old, lines) ==
    {old} \cup {SubSeq(lines, 1, k) : k \in 0..Len(lines)}

\* with open(path, 'w+') as f: f.writelines(lines), when it succeeds: the
\* file is truncated and holds the lines.
WriteLinesAppending(old, lines) == old \o lines
WriteLines(old, lines) == lines

\* except Exception as e: raise CallError(f'Failed writing {path} with error {e}')
WriteFailedRetries(p, path) == Goto(p, "write_v4")
WriteFailedSwallowed(p, path) == Goto(p, "restore_v4")
WriteFailed(p, path) == Finish(p, CallError("Failed writing", path, <<>>))

\* First try block of write_files.
WriteV4(p) ==
    /\ pc[p] = "write_v4"
    /\ \E ok \in BOOLEAN :
         /\ log' = Append(log, Event(p, "write_v4", ok, <<>>))
         /\ IF ok
              THEN /\ v4file' = WriteLines(v4file, rules[p][1])
                   /\ Goto(p, "write_v6")
              ELSE /\ v4file' \in FailedWrite(v4file, rules[p][1])
                   /\ WriteFailed(p, V4_FILE)
    /\ UNCHANGED <<op, v6file, v4table, v6table, config, gen_data, gen_out>>

\* Second try block of write_files; write_files returns and restore_files is
\* called next.
WriteV6(p) ==
    /\ pc[p] = "write_v6"
    /\ \E ok \in BOOLEAN :
         /\ log' = Append(log, Event(p, "write_v6", ok, <<>>))
         /\ IF ok
              THEN /\ v6file' = WriteLines(v6file, rules[p][2])
                   /\ Goto(p, "restore_v4")
              ELSE /\ v6file' \in FailedWrite(v6file, rules[p][2])
                   /\ WriteFailed(p, V6_FILE)
    /\ UNCHANGED <<op, v4file, v4table, v6table, config, gen_data, gen_out>>

\* ---------------------------------------------------------- restore_files
\* The content on disk of the file a reload command redirects to its stdin;
\* a reload that exits with 0 has replaced the family's kernel table by it.
ReadFile(path) == IF path = V4_FILE THEN v4file ELSE v6file

\* cmd = f'iptables-restore < {V4_FILE}': the file the IPv4 reload reads.
cmd_reads_v6 == V6_FILE
cmd == V4_FILE
\* cmd2 = f'ip6tables-restore < {V6_FILE}': the file the IPv6 reload reads.
cmd2 == V6_FILE

\* if p1.returncode:
\*     raise CallError(f'Failed restoring firewall rules: {err.decode("utf8", "ignore")}')
RestoreV4FailedIgnored(p, err) == Goto(p, "restore_v6")
RestoreV4Failed(p, err) ==
    Finish(p, CallError("Failed restoring firewall rules", "", Utf8DecodeIgnore(err)))

\* if p2.returncode:
\*     raise CallError(f'Failed restoring firewall rules: {err.deocde("utf8", "ignore")}')
\* bytes has no attribute deocde: building the message raises AttributeError.
RestoreV6Failed(p, err) == Finish(p, AttributeError)

\* iptables-restore < V4_FILE
RestoreV4(p) ==
    /\ pc[p] = "restore_v4"
    /\ \E returncode \in {0, 1}, err \in StderrOutputs :
         /\ log' = Append(log, Event(p, "restore_v4", returncode = 0, err))
         /\ IF returncode # 0
              THEN /\ RestoreV4Failed(p, err)
                   /\ UNCHANGED v4table
              ELSE /\ err = <<>>
                   /\ v4table' = ReadFile(cmd)
                   /\ Goto(p, "restore_v6")
    /\ UNCHANGED <<op, v4file, v6file, v6table, config, gen_data, gen_out>>

\* ip6tables-restore < V6_FILE; when it succeeds restore_files returns and
\* the method returns True.
RestoreV6(p) ==
    /\ pc[p] = "restore_v6"
    /\ \E returncode \in {0, 1}, err \in StderrOutputs :
         /\ log' = Append(log, Event(p, "restore_v6", returncode = 0, err))
         /\ IF returncode # 0
              THEN /\ RestoreV6Failed(p, err)
                   /\ UNCHANGED v6table
              ELSE /\ err = <<>>
                   /\ v6table' = ReadFile(cmd2)
                   /\ Finish(p, Return(TRUE))
    /\ UNCHANGED <<op, v4file, v6file, v4table, config, gen_data, gen_out>>

\* p1.communicate() has no timeout: when iptables-restore never exits the
\* job stays blocked in it, holding its lock.
RestoreV4Blocks(p) ==
    /\ pc[p] = "restore_v4"
    /\ log' = Append(log, Event(p, "blocked_v4", FALSE, <<>>))
    /\ Goto(p, "communicate_v4")
    /\ UNCHANGED <<op, v4file, v6file, v4table, v6table, config, gen_data, gen_out>>

\* p2.communicate() has no timeout either.
RestoreV6Blocks(p) ==
    /\ pc[p] = "restore_v6"
    /\ log' = Append(log, Event(p, "blocked_v6", FALSE, <<>>))
    /\ Goto(p, "communicate_v6")
    /\ UNCHANGED <<op, v4file, v6file, v4table, v6table, config, gen_data, gen_out>>

\* One step of the job of request p, once it is queued.
JobStep(p) ==
    \/ Acquire(p)
    \/ Licensed(p)
    \/ IpInUse(p)
    \/ GenerateRules(p)
    \/ WriteV4(p)
    \/ WriteV6(p)
    \/ RestoreV4(p)
    \/ RestoreV4Blocks(p)
    \/ RestoreV6(p)
    \/ RestoreV6Blocks(p)

Next ==
    \E p \in Procs :
        \/ \E o \in Ops : Call(p, o)
        \/ Acquire(p)
        \/ Licensed(p)
        \/ IpInUse(p)
        \/ GenerateRules(p)
        \/ WriteV4(p)
        \/ WriteV6(p)
        \/ RestoreV4(p)
        \/ RestoreV4Blocks(p)
        \/ RestoreV6(p)
        \/ RestoreV6Blocks(p)

Spec == Init /\ [][Next]_vars

\* The job queue and the event loop keep running every queued job: a job that
\* can take a step eventually takes one.  Clients need not call.
SpecLive == Init /\ [][Next]_vars /\ \A p \in Procs : WF_vars(JobStep(p))

\* ------------------------------------------- generate_rules called directly
InitGen ==
    /\ JobInit
    /\ config \in Configs
    /\ gen_data \in GenInputs
    /\ gen_out = <<>>

CallGenerateRules ==
    /\ gen_out = <<>>
    /\ gen_out' = generate_rules(gen_data, config)
    /\ UNCHANGED <<jobvars, config, gen_data>>

NextGen == CallGenerateRules

SpecGen == InitGen /\ [][NextGen]_vars

\* ================================================================ claims
\* Request p has an event of this step (and outcome) in the log.
Did(p, step) == \E i \in DOMAIN log : log[i].req = p /\ log[i].step = step
DidWith(p, step, ok) ==
    \E i \in DOMAIN log : log[i].req = p /\ log[i].step = step /\ log[i].ok = ok
WriteSteps == {"write_v4", "write_v6"}
\* A reload invocation is logged when it exits, or as blocked when it never does.
RestoreSteps == {"restore_v4", "restore_v6", "blocked_v4", "blocked_v6"}

\* C1: in every run in which activation starts, both the IPv4 and the IPv6
\* reload are attempted, and a failed reload is reported to the caller.
C1_BothReloadsAttempted ==
    \A p \in Procs :
        (pc[p] = "done" /\ Did(p, "restore_v4")) =>
            /\ Did(p, "restore_v6")
            /\ (DidWith(p, "restore_v4", FALSE) \/ DidWith(p, "restore_v6", FALSE))
                   => result[p].kind # "return"

\* C2: a reload of either family happens only after both files were written
\* successfully by the same run; a run in which a write failed reloads nothing.
C2_ReloadOnlyAfterBothWrites ==
    /\ \A i \in DOMAIN log :
          log[i].step \in RestoreSteps =>
              \E j, k \in 1..(i - 1) :
                  /\ j < k
                  /\ log[j] = Event(log[i].req, "write_v4", TRUE, <<>>)
                  /\ log[k] = Event(log[i].req, "write_v6", TRUE, <<>>)
    /\ \A p \in Procs :
          (DidWith(p, "write_v4", FALSE) \/ DidWith(p, "write_v6", FALSE)) =>
              ~ \E s \in RestoreSteps : Did(p, s)

\* A run wrote the IPv4 file, failed on the IPv6 file and ended.
C2_Witness ==
    \E p \in Procs :
        /\ pc[p] = "done"
        /\ DidWith(p, "write_v4", TRUE)
        /\ DidWith(p, "write_v6", FALSE)
        /\ result[p].kind = "CallError"

\* C3: at most one generate-write-activate sequence is in flight: at most one
\* job is between taking the lock and finishing, and the steps of two
\* requests never interleave.
C3_MutualExclusion ==
    /\ Cardinality({p \in Procs : Running(p)}) <= 1
    /\ \A i, j, k \in DOMAIN log :
          (i < j /\ j < k /\ log[i].req = log[k].req) => log[j].req = log[i].req

\* A drop_all is in the middle of its sequence while an accept_all waits
\* (or the other way round).
C3_Witness ==
    \E p, q \in Procs :
        /\ pc[p] = "write_v6"
        /\ pc[q] = "queued"
        /\ op[p] # op[q]

\* C4: on an unlicensed system drop_all and accept_all return False without
\* raising, write no file and invoke no reload: files and tables are unchanged.
C4_UnlicensedNoEffect ==
    /\ [](\A p \in Procs :
             DidWith(p, "licensed", FALSE) =>
                 /\ pc[p] = "done"
                 /\ result[p] = Return(FALSE)
                 /\ ~ \E s \in WriteSteps \cup RestoreSteps : Did(p, s))
    /\ [][\A p \in Procs :
             (~ DidWith(p, "licensed", FALSE) /\ DidWith(p, "licensed", FALSE)') =>
                 UNCHANGED <<v4file, v6file, v4table, v6table>>]_vars

\* Both methods found the system unlicensed, after an earlier run had
\* written files or none had.
C4_Witness ==
    \E p, q \in Procs :
        /\ op[p] = "drop_all" /\ DidWith(p, "licensed", FALSE)
        /\ op[q] = "accept_all" /\ DidWith(q, "licensed", FALSE)

\* C5: on a licensed system drop_all with an empty VIP list ends with a
\* reported error (not a return value), writes no file and invokes no reload.
C5_NoVipsFailsLoudly ==
    \A p \in Procs :
        DidWith(p, "ip_in_use", FALSE) =>
            /\ op[p] = "drop_all"
            /\ DidWith(p, "licensed", TRUE)
            /\ pc[p] = "done"
            /\ result[p].kind = "CallError"
            /\ ~ \E s \in WriteSteps \cup RestoreSteps : Did(p, s)

\* A licensed drop_all found no VIP.
C5_Witness ==
    \E p \in Procs :
        /\ op[p] = "drop_all"
        /\ DidWith(p, "licensed", TRUE)
        /\ DidWith(p, "ip_in_use", FALSE)

\* ------------------------------------------------ claims on generate_rules
Called == gen_out # <<>>
KindSeq(r, kind) == LET is(l) == l.kind = kind IN SelectSeq(r, is)
TypeSeq(vips, type) == LET is(v) == v.type = type IN SelectSeq(vips, is)
FiveLines ==
    <<Line("*filter", "", "", 0, 0), Line(":ACCEPT", "INPUT", "", 0, 0),
      Line(":ACCEPT", "FORWARD", "", 0, 0), Line(":ACCEPT", "OUTPUT", "", 0, 0),
      Line("COMMIT", "", "", 0, 0)>>

\* C6: with drop false generate_rules returns for both families exactly the
\* five lines table marker, three accept policies, COMMIT, whatever the vips.
C6_AllowAllFiveLines ==
    (Called /\ ~ gen_data.drop) =>
        /\ gen_out[1] = FiveLines
        /\ gen_out[2] = FiveLines

\* generate_rules was called with drop false and a list holding an IPv4 and
\* an IPv6 VIP.
C6_Witness ==
    /\ Called /\ ~ gen_data.drop
    /\ TypeSeq(gen_data.vips, "INET") # <<>>
    /\ TypeSeq(gen_data.vips, "INET6") # <<>>

\* C7: in Block mode the ACCEPT lines of each family's ruleset are exactly
\* one per admin port (ssh, web UI, web UI https), and every ACCEPT line
\* precedes every DROP line of that ruleset.
C7_AdminAcceptsFirst ==
    (Called /\ gen_data.drop) =>
        \A f \in {1, 2} :
            LET r == gen_out[f]
                accepts == KindSeq(r, "ACCEPT")
            IN  /\ Len(accepts) = 3
                /\ accepts[1].val = config.tcpport
                /\ accepts[2].val = config.ui_port
                /\ accepts[3].val = config.ui_httpsport
                /\ \A a \in 1..3 : /\ accepts[a].chain = "INPUT"
                                   /\ accepts[a].opt = "--dport"
                /\ \A i, j \in DOMAIN r :
                      (r[i].kind = "ACCEPT" /\ r[j].kind = "DROP") => i < j

\* Block mode with two equal admin ports and IPv4 VIPs only.
C7_Witness ==
    /\ Called /\ gen_data.drop
    /\ config.ui_port = config.ui_httpsport
    /\ TypeSeq(gen_data.vips, "INET") # <<>>
    /\ TypeSeq(gen_data.vips, "INET6") = <<>>
    /\ KindSeq(gen_out[1], "DROP") # <<>>

\* C8: in Block mode the DROP lines of the IPv4 ruleset are one per INET
\* entry of the list, for its address with mask /32, and those of the IPv6
\* ruleset one per INET6 entry, for its address with mask /128.
C8_OneHostDropPerVip ==
    (Called /\ gen_data.drop) =>
        LET drops4 == KindSeq(gen_out[1], "DROP")
            drops6 == KindSeq(gen_out[2], "DROP")
            vips4 == TypeSeq(gen_data.vips, "INET")
            vips6 == TypeSeq(gen_data.vips, "INET6")
        IN  /\ Len(drops4) = Len(vips4)
            /\ \A k \in DOMAIN drops4 : /\ drops4[k].val = vips4[k].address
                                        /\ drops4[k].mask = 32
            /\ Len(drops6) = Len(vips6)
            /\ \A k \in DOMAIN drops6 : /\ drops6[k].val = vips6[k].address
                                        /\ drops6[k].mask = 128

\* Block mode with an IPv4 and an IPv6 VIP in the list.
C8_Witness ==
    /\ Called /\ gen_data.drop
    /\ KindSeq(gen_out[1], "DROP") # <<>>
    /\ KindSeq(gen_out[2], "DROP") # <<>>

\* C9: every ruleset starts with '*filter', has the INPUT, FORWARD and OUTPUT
\* accept policies as lines 1 to 3, ends with 'COMMIT', and has its accept and
\* drop rules strictly between the policies and the commit line.
C9_RulesetShape ==
    Called =>
        \A f \in {1, 2} :
            LET r == gen_out[f]
            IN  /\ Len(r) >= 5
                /\ r[1].kind = "*filter"
                /\ \A c \in 1..3 : r[c + 1].kind = ":ACCEPT"
                /\ <<r[2].chain, r[3].chain, r[4].chain>> = <<"INPUT", "FORWARD", "OUTPUT">>
                /\ r[Len(r)].kind = "COMMIT"
                /\ \A i \in DOMAIN r :
                      r[i].kind \in {"ACCEPT", "DROP"} => (4 < i /\ i < Len(r))

\* A Block-mode ruleset with accept and drop rules.
C9_Witness ==
    /\ Called /\ gen_data.drop
    /\ KindSeq(gen_out[1], "DROP") # <<>>
    /\ Len(gen_out[2]) = 8

\* C10: a failed IPv6 reload ends the run with the same error as a failed
\* IPv4 reload, a CallError carrying the decoded stderr of the invocation.
C10_V6FailureIsCallError ==
    \A p \in Procs :
        \A i \in DOMAIN log :
            (log[i].req = p /\ log[i].step = "restore_v6" /\ ~ log[i].ok) =>
                result[p] = CallError("Failed restoring firewall rules", "",
                                      Utf8DecodeIgnore(log[i].err))

\* C12: whenever a request is about to invoke a reload, or waits for one,
\* both rules files hold the rulesets that this request generated.
ReloadPcs == {"restore_v4", "restore_v6", "communicate_v4", "communicate_v6"}
C12_ReloadLoadsOwnFiles ==
    \A p \in Procs :
        pc[p] \in ReloadPcs => (v4file = rules[p][1] /\ v6file = rules[p][2])

\* A drop_all is about to reload while an accept_all is queued behind it,
\* after the files held something else than the ruleset pair of one request.
C12_Witness ==
    \E p, q \in Procs :
        /\ op[p] = "drop_all" /\ pc[p] = "restore_v6"
        /\ op[q] = "accept_all" /\ pc[q] = "queued"
        /\ v4file # v6file

\* C13: every queued request eventually ends with a return value or a
\* reported error, so that its lock is free for the next one.
C13_EveryRequestEnds ==
    \A p \in Procs : (pc[p] = "queued") ~> (pc[p] = "done")

\* C14: when a run ends because a reload failed, both files hold the rulesets
\* of that run, the table of the failed family keeps its content, the IPv6
\* table is untouched when the IPv4 reload failed, and the IPv4 table holds
\* this run's IPv4 ruleset when the IPv6 reload failed.
ReloadFails(p) ==
    /\ pc[p] \in {"restore_v4", "restore_v6"}
    /\ pc'[p] = "done"
    /\ result'[p].kind # "return"
C14_FilesKeptTablesPartly ==
    [][\A p \in Procs :
          ReloadFails(p) =>
              /\ v4file' = rules[p][1]
              /\ v6file' = rules[p][2]
              /\ pc[p] = "restore_v4" => UNCHANGED <<v4table, v6table>>
              /\ pc[p] = "restore_v6" =>
                     (v6table' = v6table /\ v4table' = rules[p][1])]_vars

\* A drop_all ended on a failed IPv6 reload after an accept_all had loaded
\* both tables: files and IPv4 table are the new ones, the IPv6 table is old.
C14_Witness ==
    \E p, q \in Procs :
        /\ op[q] = "accept_all" /\ result[q] = Return(TRUE)
        /\ op[p] = "drop_all" /\ pc[p] = "done"
        /\ DidWith(p, "restore_v6", FALSE)
        /\ v4table = v4file
        /\ v6table # v6file

\* C15: a successful write leaves the file holding exactly the lines of the
\* run's own ruleset, whatever it held before; after the second successful
\* write both files do.
C15_WriteReplacesContent ==
    [][\A p \in Procs :
          /\ (pc[p] = "write_v4" /\ pc'[p] = "write_v6") => v4file' = rules[p][1]
          /\ (pc[p] = "write_v6" /\ pc'[p] = "restore_v4") =>
                 (v4file' = rules[p][1] /\ v6file' = rules[p][2])]_vars

\* An accept_all has written both files after a drop_all had failed in the
\* middle of writing: the IPv4 file is back to five lines.
C15_Witness ==
    \E p, q \in Procs :
        /\ op[q] = "drop_all" /\ pc[q] = "done"
        /\ DidWith(q, "write_v4", TRUE) /\ DidWith(q, "write_v6", FALSE)
        /\ op[p] = "accept_all" /\ pc[p] = "restore_v4"
        /\ Len(v4file) = 5
        /\ Len(v6file) = 5

\* C16: a run returns True only after both files were written and both
\* reloads exited with status zero in that run, and when it returns True
\* each kernel table holds the ruleset the run generated for its family.
C16_TrueMeansAllDone ==
    /\ [](\A p \in Procs :
             result[p] = Return(TRUE) =>
                 /\ DidWith(p, "write_v4", TRUE) /\ DidWith(p, "write_v6", TRUE)
                 /\ DidWith(p, "restore_v4", TRUE) /\ DidWith(p, "restore_v6", TRUE)
                 /\ ~ \E s \in WriteSteps \cup RestoreSteps : DidWith(p, s, FALSE))
    /\ [][\A p \in Procs :
             (result[p] # Return(TRUE) /\ result'[p] = Return(TRUE)) =>
                 (v4table' = rules[p][1] /\ v6table' = rules[p][2])]_vars

\* A drop_all returned True and the two tables hold different rulesets.
C16_Witness ==
    \E p \in Procs :
        /\ op[p] = "drop_all"
        /\ result[p] = Return(TRUE)
        /\ v4table # v6table

\* C17: in Block mode every DROP line, of the IPv4 ruleset as of the IPv6
\* ruleset, matches on the destination address (-d).
C17_DropsMatchDestination ==
    (Called /\ gen_data.drop) =>
        \A f \in {1, 2} :
            \A i \in DOMAIN gen_out[f] :
                gen_out[f][i].kind = "DROP" =>
                    (gen_out[f][i].chain = "INPUT" /\ gen_out[f][i].opt = "-d")

\* C18: in Block mode an entry whose type is neither INET nor INET6 adds
\* nothing: the rulesets equal those generated from the list without it.
Remove(vips, k) == SubSeq(vips, 1, k - 1) \o SubSeq(vips, k + 1, Len(vips))
C18_UnknownFamilySkipped ==
    (Called /\ gen_data.drop) =>
        \A k \in DOMAIN gen_data.vips :
            gen_data.vips[k].type \notin {"INET", "INET6"} =>
                gen_out = generate_rules([drop |-> TRUE,
                                          vips |-> Remove(gen_data.vips, k)],
                                         config)

\* Block mode with an entry of another family next to an IPv4 or IPv6 VIP.
C18_Witness ==
    /\ Called /\ gen_data.drop
    /\ TypeSeq(gen_data.vips, "LINK") # <<>>
    /\ Len(TypeSeq(gen_data.vips, "LINK")) < Len(gen_data.vips)

\* C19: within one run each file is written at most once and each family's
\* reload is invoked at most once, and a failed step is the run's last.
StepCount(p, steps) ==
    Cardinality({i \in DOMAIN log : log[i].req = p /\ log[i].step \in steps})
C19_NoRetries ==
    \A p \in Procs :
        /\ StepCount(p, {"write_v4"}) <= 1
        /\ StepCount(p, {"write_v6"}) <= 1
        /\ StepCount(p, {"restore_v4", "blocked_v4"}) <= 1
        /\ StepCount(p, {"restore_v6", "blocked_v6"}) <= 1
        /\ \A i, j \in DOMAIN log :
              (log[i].req = p /\ log[i].step \in WriteSteps \cup RestoreSteps
                  /\ ~ log[i].ok /\ i < j) => log[j].req # p

\* A run failed on its second write and ended; the other request ran after it.
C19_Witness ==
    \E p, q \in Procs :
        /\ pc[p] = "done"
        /\ DidWith(p, "write_v6", FALSE)
        /\ log[Len(log)].req = q
        /\ q # p

====
